---------------------------- MODULE Spec2Model ----------------------------
(***************************************************************************)
(* Entitlement checks and asynchronous job lifecycle of the AI services    *)
(* app: the request handlers of ai_services/views.py, the Celery tasks of  *)
(* ai_services/tasks.py and the usage service of                           *)
(* ai_services/usage_service.py, for one user.                             *)
(*                                                                         *)
(* A database row is a record; a model instance held by a request handler  *)
(* or by a task is a copy of the row taken when it was read or created,    *)
(* and Model.save() writes every field of that copy back (Django's save    *)
(* without update_fields).                                                 *)
(***************************************************************************)
EXTENDS Integers, Sequences, FiniteSets

\* ------------------------------------------------------------------ bounds

\* Itinerary jobs in the job lifecycle specification.
MaxItins == 1
\* Video and chat jobs that may follow.
MaxFollowUps == 1
\* Jobs under way at the same time in the job lifecycle specification.
MaxActiveJobs == 1
\* Request handlers of one view running at the same time.
WebWorkers == 2
\* Itineraries and videos requested in the admission specification.
MaxAdmitItins == 1
MaxAdmitVideos == 2
\* Video requests in the concurrent requests specification.
MaxRaceVideos == 2
\* Video purchases in the payment bridge specification.
MaxPurchases == 1
MaxChatTurns == 2
MaxOtps == 2
OtpLife == 1
TokenLife == 2
MaxRemaining == 5
MaxGenerated == 2
MaxLedgerCalls == 8
MaxProgressVideos == 1
MaxBurstItins == 2
MaxBurstVideos == 4
MaxResolvePurchases == 2
MaxBridgeCalls == 2
\* Video requests admitted in the quota specification.
MaxQuotaVideos == 6
\* Itinerary requests and clock ticks in the billing period specification.
MaxPeriodItins == 2
MaxTime == 3

\* -------------------------------------------------------- program constants

max_retries == 2
max_attempts == 40
sleep_seconds == 30
video_soft_time_limit == 900

\* Length of a calendar month in clock ticks.
MonthLen == 2

\* A null column (None).
Null == -1

\* float('inf'): above every count the model reaches.
inf == 999999

Terminal == {"completed", "failed"}

VARIABLES
    now,        \* timezone.now(), in ticks
    sub,        \* the user's Subscription row (payments.Subscription)
    usage,      \* the user's most recent UsageTracking row
    itins,      \* table itineraries: sequence of rows, index = id
    videos,     \* table video_generations
    chats,      \* table chat_messages
    itask,      \* Celery state of create_itinerary_task per itinerary id
    vtask,      \* Celery state of generate_video_task per video id
    ctask,      \* Celery state of chat_task per user message id
    ireq,       \* CreateItineraryView.post in progress
    vreq,       \* GenerateVideoView.post in progress
    creq,       \* ChatView.post in progress
    ledgerCalls,  \* per video id: calls of record_video_usage made for it
    bridgeCalls,  \* per video id: calls of _update_video_purchase_status made for it
    envelope,     \* what the gateway client returned to the view that called it last
    purchases,    \* table video_purchases (payments.VideoPurchase)
    paymentsDown, \* TRUE while queries on the payments tables raise
    auth          \* the user's password, password-reset OTPs and reset tokens

dbVars == <<sub, usage, itins, videos, chats>>
taskVars == <<itask, vtask, ctask>>
reqVars == <<ireq, vreq, creq>>
logVars == <<ledgerCalls, bridgeCalls, envelope, purchases, paymentsDown, auth>>
vars == <<now, dbVars, taskVars, reqVars, logVars>>

\* ------------------------------------------------------------- usage service

NoSubscription ==
    [exists |-> FALSE, plan |-> "none", status |-> "none",
     stripe_subscription_id |-> "",
     current_period_start |-> Null, current_period_end |-> Null]

NoUsage ==
    [exists |-> FALSE, itineraries_generated |-> 0, videos_generated |-> 0,
     videos_remaining |-> 0]

PLAN_LIMITS(plan) ==
    CASE plan = "premium" ->
            [itineraries_per_month |-> inf, videos_per_month |-> 3,
             video_quality |-> "standard"]
      [] plan = "pro" ->
            [itineraries_per_month |-> inf, videos_per_month |-> 5,
             video_quality |-> "high"]
      [] OTHER ->
            [itineraries_per_month |-> 1, videos_per_month |-> 0,
             video_quality |-> "standard"]

get_user_plan(s) ==
    IF s.exists /\ s.plan # "none" /\ s.status = "active" THEN s.plan ELSE "basic"

MonthStart(t) == (t \div MonthLen) * MonthLen

get_billing_period(s, t) ==
    IF s.exists /\ s.current_period_start # Null /\ s.current_period_end # Null
    THEN <<s.current_period_start, s.current_period_end>>
    ELSE <<MonthStart(t), MonthStart(t) + MonthLen>>

InPeriod(row, p) == row.created_at >= p[1] /\ row.created_at < p[2]

itineraries_count(s, t, its) ==
    Cardinality({i \in DOMAIN its :
        /\ its[i].user = "user"
        /\ InPeriod(its[i], get_billing_period(s, t))
        /\ its[i].status = "completed"})

can_create_itinerary(s, t, its) ==
    LET limit == PLAN_LIMITS(get_user_plan(s)).itineraries_per_month
    IN  limit = inf \/ itineraries_count(s, t, its) < limit

\* Variant of free_videos_used that counts failed videos as well.
free_videos_created(s, t, vids) ==
    Cardinality({v \in DOMAIN vids :
        /\ InPeriod(vids[v], get_billing_period(s, t))
        /\ vids[v].is_free_quota})

free_videos_used(s, t, vids) ==
    Cardinality({v \in DOMAIN vids :
        /\ InPeriod(vids[v], get_billing_period(s, t))
        /\ vids[v].is_free_quota
        /\ vids[v].status \in {"completed", "processing", "pending", "generating"}})

get_video_usage(s, t, vids) ==
    LET free_limit == PLAN_LIMITS(get_user_plan(s)).videos_per_month
        used == free_videos_used(s, t, vids)
        free_remaining == IF free_limit - used > 0 THEN free_limit - used ELSE 0
    IN  [free_used |-> used, free_limit |-> free_limit,
         free_remaining |-> free_remaining,
         can_use_free |-> free_remaining > 0,
         requires_payment |-> free_remaining <= 0]

\* can_generate_video returns (True, requires_payment, message).
can_generate_video(s, t, vids) ==
    IF get_video_usage(s, t, vids).can_use_free
    THEN [can_generate |-> TRUE, requires_payment |-> FALSE]
    ELSE [can_generate |-> TRUE, requires_payment |-> TRUE]

record_itinerary_usage(u) ==
    IF u.exists THEN [u EXCEPT !.itineraries_generated = @ + 1] ELSE u

\* Variant of record_video_usage that decrements without looking at the
\* counter.
record_video_usage_unfloored(u, is_free) ==
    IF u.exists
    THEN [u EXCEPT !.videos_generated = @ + 1,
                   !.videos_remaining = IF is_free THEN @ - 1 ELSE @]
    ELSE u

record_video_usage(u, is_free) ==
    IF u.exists
    THEN [u EXCEPT !.videos_generated = @ + 1,
                   !.videos_remaining = IF is_free /\ @ > 0 THEN @ - 1 ELSE @]
    ELSE u

\* ------------------------------------------------------------------- Celery

\* Variant of retry that allows one retry more.
retry_once_more(t) ==
    IF t.retries <= max_retries
    THEN [t EXCEPT !.state = "RETRY", !.retries = @ + 1]
    ELSE [t EXCEPT !.state = "FAILURE"]

\* self.retry(exc=e): a Retry is scheduled while request.retries < max_retries,
\* otherwise the exception is re-raised and the task ends in FAILURE.
retry(t) ==
    IF t.retries < max_retries
    THEN [t EXCEPT !.state = "RETRY", !.retries = @ + 1]
    ELSE [t EXCEPT !.state = "FAILURE"]

\* Variant of returned that retries an execution the remote side failed.
returned_or_retried(t, row, res) ==
    IF res \in {"failure", "remote_failed"} /\ t.retries < max_retries
    THEN [t EXCEPT !.state = "RETRY", !.retries = @ + 1, !.mem = row,
                   !.result = res]
    ELSE [t EXCEPT !.state = "SUCCESS", !.mem = row, !.result = res]

\* The task function returns: Celery records SUCCESS and runs it no more.
returned(t, row, res) ==
    [t EXCEPT !.state = "SUCCESS", !.mem = row, !.result = res]

\* Variant of swallowed in which the failure reaches the task function.
propagated(t, failed) ==
    IF failed /\ t.retries < max_retries
    THEN [t EXCEPT !.state = "RETRY", !.retries = @ + 1]
    ELSE IF failed THEN [t EXCEPT !.state = "FAILURE"] ELSE t

\* What an exception inside record_*_usage or _update_video_purchase_status
\* does to the task that called it: the function's own except clause logs a
\* warning and the task goes on.
swallowed(t, failed) == t

Runnable(t) == t.state \in {"PENDING", "RETRY"}

\* The task has returned (SUCCESS) or raised for the last time (FAILURE), or
\* the row never had one.
Ended(t) == t.state \in {"NONE", "SUCCESS", "FAILURE"}

\* ---------------------------------------------------------------- itinerary

EmptyItin ==
    [user |-> "user", status |-> "pending", celery_task_id |-> "",
     error_message |-> "", fastapi_itinerary_id |-> "", created_at |-> 0]

IdleItinReq == [pc |-> "idle", job |-> 0, mem |-> EmptyItin]

\* CreateItineraryView.post up to the plan limit check; a request over the
\* limit is answered 403 limit_exceeded and changes nothing.
ItineraryCheck(w) ==
    /\ ireq[w].pc = "idle"
    /\ ireq' = [ireq EXCEPT ![w] =
                  IF can_create_itinerary(sub, now, itins)
                  THEN [IdleItinReq EXCEPT !.pc = "checked"]
                  ELSE IdleItinReq]
    /\ UNCHANGED <<now, dbVars, taskVars, vreq, creq, logVars>>

\* Itinerary.objects.create(status='pending') and create_itinerary_task.delay.
ItineraryCreate(w) ==
    /\ ireq[w].pc = "checked"
    /\ LET row == [EmptyItin EXCEPT !.created_at = now]
       IN  /\ itins' = Append(itins, row)
           /\ itask' = Append(itask, [state |-> "PENDING", retries |-> 0,
                                      mem |-> EmptyItin, result |-> "none"])
           /\ ireq' = [ireq EXCEPT ![w] =
                         [pc |-> "enqueued", job |-> Len(itins) + 1,
                          mem |-> row]]
    /\ UNCHANGED <<now, sub, usage, videos, chats, vtask, ctask, vreq, creq, logVars>>

\* itinerary.celery_task_id = task.id; itinerary.save(); 202 response.
ItinerarySave(w) ==
    /\ ireq[w].pc = "enqueued"
    /\ itins' = [itins EXCEPT ![ireq[w].job] =
                    [ireq[w].mem EXCEPT !.celery_task_id = "task"]]
    /\ ireq' = [ireq EXCEPT ![w] = IdleItinReq]
    /\ UNCHANGED <<now, sub, usage, videos, chats, taskVars, vreq, creq, logVars>>

\* create_itinerary_task: get the row, status = 'processing', save.
ItinTaskStart(j) ==
    /\ Runnable(itask[j])
    /\ LET row == [itins[j] EXCEPT !.status = "processing"]
       IN  /\ itins' = [itins EXCEPT ![j] = row]
           /\ itask' = [itask EXCEPT ![j] =
                          [@ EXCEPT !.state = "STARTED", !.mem = row,
                                    !.result = "none"]]
    /\ UNCHANGED <<now, sub, usage, videos, chats, vtask, ctask, reqVars, logVars>>

\* create_itinerary_task from the gateway call to its end.  r is the gateway's
\* answer: "failure" (success=False), "success", or "malformed" (success=True
\* with a body that is no JSON object, on which fastapi_data.get raises).
ItinTaskCall(j, r) ==
    /\ itask[j].state = "STARTED"
    /\ CASE r = "failure" ->
              LET row == [itask[j].mem EXCEPT !.status = "failed",
                                              !.error_message = "gateway error"]
              IN  /\ itins' = [itins EXCEPT ![j] = row]
                  /\ itask' = [itask EXCEPT ![j] = returned(@, row, r)]
                  /\ usage' = usage
         [] r = "success" ->
              LET row == [itask[j].mem EXCEPT !.status = "completed",
                                              !.fastapi_itinerary_id = "fid"]
              IN  /\ itins' = [itins EXCEPT ![j] = row]
                  /\ itask' = [itask EXCEPT ![j] =
                                 swallowed(returned(@, row, r), paymentsDown)]
                  /\ usage' = IF paymentsDown THEN usage
                              ELSE record_itinerary_usage(usage)
         [] OTHER ->
              \* except Exception: re-read the row, mark it failed, self.retry
              LET row == [itins[j] EXCEPT !.status = "failed",
                                          !.error_message = "exception"]
              IN  /\ itins' = [itins EXCEPT ![j] = row]
                  /\ itask' = [itask EXCEPT ![j] =
                                 retry([@ EXCEPT !.mem = row, !.result = r])]
                  /\ usage' = usage
    /\ UNCHANGED <<now, sub, videos, chats, vtask, ctask, reqVars, logVars>>

GatewayAnswers == {"success", "failure", "malformed"}

\* ------------------------------------------------------------ payment bridge

\* A VideoPurchase row as VideoPurchaseView.post creates it; video_generation
\* is the one-to-one link to the video (0: null), payment the Payment row.
NewPurchase(payment, t) ==
    [payment |-> payment, video_generation |-> 0, generation_status |-> "pending",
     video_url |-> "", created_at |-> t]

\* The most recently created row of a set of purchase ids (ordering
\* -created_at, the later id among rows of one instant).
Latest(ps, S) ==
    CHOOSE p \in S :
        \A q \in S : \/ ps[q].created_at < ps[p].created_at
                     \/ ps[q].created_at = ps[p].created_at /\ q <= p

\* Variant of update_video_purchase_status that tries the timestamp match
\* before the direct link and the payment.
update_video_purchase_status_heuristic_first(ps, id, video, status) ==
    LET linked == {p \in DOMAIN ps : ps[p].video_generation = id}
        ofPayment == IF video.payment # 0
                     THEN {p \in DOMAIN ps : ps[p].payment = video.payment}
                     ELSE {}
        recent == IF video.is_paid /\ video.payment_session_id # ""
                  THEN {p \in DOMAIN ps : /\ ps[p].video_generation = 0
                                           /\ ps[p].created_at = video.created_at}
                  ELSE {}
        written(p) ==
            [ps EXCEPT ![p] =
                [@ EXCEPT !.video_generation = id,
                          !.generation_status = status,
                          !.video_url = IF status = "completed" /\ video.video_url # ""
                                        THEN video.video_url ELSE @]]
    IN  IF recent # {} THEN written(Latest(ps, recent))
        ELSE IF linked # {} THEN written(CHOOSE p \in linked : TRUE)
        ELSE IF ofPayment # {} THEN written(Latest(ps, ofPayment))
        ELSE ps

\* Variant of update_video_purchase_status whose timestamp match is tried
\* for every job, paid or not.
update_video_purchase_status_any_job(ps, id, video, status) ==
    LET linked == {p \in DOMAIN ps : ps[p].video_generation = id}
        ofPayment == IF video.payment # 0
                     THEN {p \in DOMAIN ps : ps[p].payment = video.payment}
                     ELSE {}
        recent == {p \in DOMAIN ps : /\ ps[p].video_generation = 0
                                     /\ ps[p].created_at = video.created_at}
        written(p) ==
            [ps EXCEPT ![p] =
                [@ EXCEPT !.video_generation = id,
                          !.generation_status = status,
                          !.video_url = IF status = "completed" /\ video.video_url # ""
                                        THEN video.video_url ELSE @]]
    IN  IF linked # {} THEN written(CHOOSE p \in linked : TRUE)
        ELSE IF ofPayment # {} THEN written(Latest(ps, ofPayment))
        ELSE IF recent # {} THEN written(Latest(ps, recent))
        ELSE ps

\* _update_video_purchase_status(video, status): the purchase linked to the
\* video, else the one of the video's payment, else for a paid video with a
\* payment session the latest unlinked purchase created within 5 minutes of
\* the video (the same clock tick); no purchase found: nothing is written.
update_video_purchase_status(ps, id, video, status) ==
    LET linked == {p \in DOMAIN ps : ps[p].video_generation = id}
        ofPayment == IF video.payment # 0
                     THEN {p \in DOMAIN ps : ps[p].payment = video.payment}
                     ELSE {}
        recent == IF video.is_paid /\ video.payment_session_id # ""
                  THEN {p \in DOMAIN ps : /\ ps[p].video_generation = 0
                                           /\ ps[p].created_at = video.created_at}
                  ELSE {}
        written(p) ==
            [ps EXCEPT ![p] =
                [@ EXCEPT !.video_generation = id,
                          !.generation_status = status,
                          !.video_url = IF status = "completed" /\ video.video_url # ""
                                        THEN video.video_url ELSE @]]
    IN  IF linked # {} THEN written(CHOOSE p \in linked : TRUE)
        ELSE IF ofPayment # {} THEN written(Latest(ps, ofPayment))
        ELSE IF recent # {} THEN written(Latest(ps, recent))
        ELSE ps

\* -------------------------------------------------------------------- video

EmptyVideo ==
    [status |-> "pending", celery_task_id |-> "", error_message |-> "",
     fastapi_video_id |-> "", progress |-> 0, video_url |-> "",
     quality |-> "standard", itinerary |-> 0,
     is_free_quota |-> FALSE, is_paid |-> FALSE, payment_session_id |-> "",
     payment |-> 0, created_at |-> 0, current_day |-> 0, current_stage |-> ""]

IdleVideoReq == [pc |-> "idle", job |-> 0, mem |-> EmptyVideo]

\* stripe.checkout.Session.retrieve: the sessions Stripe knows.  An unknown id
\* raises stripe.error.StripeError.
StripeSession(psid) ==
    CASE psid \in {"cs_paid", "cs_paid2"} ->
            [found |-> TRUE, payment_status |-> "paid", user_id |-> "user"]
      [] psid = "cs_unpaid" ->
            [found |-> TRUE, payment_status |-> "unpaid", user_id |-> "user"]
      [] psid = "cs_foreign" ->
            [found |-> TRUE, payment_status |-> "paid", user_id |-> "other"]
      [] OTHER ->
            [found |-> FALSE, payment_status |-> "none", user_id |-> "none"]

already_used(vids, psid) ==
    \E v \in DOMAIN vids : vids[v].payment_session_id = psid

\* Variant of VideoOutcome without the check of the session's user.
VideoOutcome_any_owner(s, t, its, vids, it, quality, psid) ==
    IF it \notin DOMAIN its \/ its[it].user # "user" THEN "not_found"
    ELSE IF its[it].status # "completed" THEN "incomplete_itinerary"
    ELSE IF quality = "high" /\ get_user_plan(s) # "pro" THEN "upgrade_required"
    ELSE IF ~can_generate_video(s, t, vids).requires_payment THEN "proceed"
    ELSE IF psid = "" THEN "payment_required"
    ELSE IF ~StripeSession(psid).found THEN "payment_verification_failed"
    ELSE IF StripeSession(psid).payment_status # "paid" THEN "payment_incomplete"
    ELSE IF already_used(vids, psid) THEN "payment_already_used"
    ELSE "proceed"

\* Variant of VideoOutcome that lets premium users ask for high quality.
VideoOutcome_premium_high(s, t, its, vids, it, quality, psid) ==
    IF it \notin DOMAIN its \/ its[it].user # "user" THEN "not_found"
    ELSE IF its[it].status # "completed" THEN "incomplete_itinerary"
    ELSE IF quality = "high" /\ get_user_plan(s) = "basic" THEN "upgrade_required"
    ELSE IF ~can_generate_video(s, t, vids).requires_payment THEN "proceed"
    ELSE IF psid = "" THEN "payment_required"
    ELSE IF ~StripeSession(psid).found THEN "payment_verification_failed"
    ELSE IF StripeSession(psid).payment_status # "paid" THEN "payment_incomplete"
    ELSE IF StripeSession(psid).user_id # "user" THEN "invalid_payment"
    ELSE IF already_used(vids, psid) THEN "payment_already_used"
    ELSE "proceed"

\* Variant of VideoOutcome without the check of the payment status.
VideoOutcome_unpaid(s, t, its, vids, it, quality, psid) ==
    IF it \notin DOMAIN its \/ its[it].user # "user" THEN "not_found"
    ELSE IF its[it].status # "completed" THEN "incomplete_itinerary"
    ELSE IF quality = "high" /\ get_user_plan(s) # "pro" THEN "upgrade_required"
    ELSE IF ~can_generate_video(s, t, vids).requires_payment THEN "proceed"
    ELSE IF psid = "" THEN "payment_required"
    ELSE IF ~StripeSession(psid).found THEN "payment_verification_failed"
    ELSE IF StripeSession(psid).user_id # "user" THEN "invalid_payment"
    ELSE IF already_used(vids, psid) THEN "payment_already_used"
    ELSE "proceed"

\* Variant of VideoOutcome without the check of the itinerary's status.
VideoOutcome_any_status(s, t, its, vids, it, quality, psid) ==
    IF it \notin DOMAIN its \/ its[it].user # "user" THEN "not_found"
    ELSE IF quality = "high" /\ get_user_plan(s) # "pro" THEN "upgrade_required"
    ELSE IF ~can_generate_video(s, t, vids).requires_payment THEN "proceed"
    ELSE IF psid = "" THEN "payment_required"
    ELSE IF ~StripeSession(psid).found THEN "payment_verification_failed"
    ELSE IF StripeSession(psid).payment_status # "paid" THEN "payment_incomplete"
    ELSE IF StripeSession(psid).user_id # "user" THEN "invalid_payment"
    ELSE IF already_used(vids, psid) THEN "payment_already_used"
    ELSE "proceed"

\* The response GenerateVideoView.post decides on, "proceed" when the video is
\* to be created.
VideoOutcome(s, t, its, vids, it, quality, psid) ==
    IF it \notin DOMAIN its \/ its[it].user # "user" THEN "not_found"
    ELSE IF its[it].status # "completed" THEN "incomplete_itinerary"
    ELSE IF quality = "high" /\ get_user_plan(s) # "pro" THEN "upgrade_required"
    ELSE IF ~can_generate_video(s, t, vids).requires_payment THEN "proceed"
    ELSE IF psid = "" THEN "payment_required"
    ELSE IF ~StripeSession(psid).found THEN "payment_verification_failed"
    ELSE IF StripeSession(psid).payment_status # "paid" THEN "payment_incomplete"
    ELSE IF StripeSession(psid).user_id # "user" THEN "invalid_payment"
    ELSE IF already_used(vids, psid) THEN "payment_already_used"
    ELSE "proceed"

\* GenerateVideoView.post up to the quota, quality and payment checks; a
\* request with another outcome than "proceed" is answered with that error
\* and changes nothing.
VideoCheck(w, it, quality, psid) ==
    /\ vreq[w].pc = "idle"
    /\ LET outcome == VideoOutcome(sub, now, itins, videos, it, quality, psid)
           requires_payment == can_generate_video(sub, now, videos).requires_payment
       IN  vreq' = [vreq EXCEPT ![w] =
                      IF outcome = "proceed"
                      THEN [IdleVideoReq EXCEPT
                              !.pc = "checked",
                              !.mem = [EmptyVideo EXCEPT
                                         !.quality = quality,
                                         !.itinerary = it,
                                         !.is_free_quota = ~requires_payment,
                                         !.is_paid = requires_payment,
                                         !.payment_session_id = psid]]
                      ELSE IdleVideoReq]
    /\ UNCHANGED <<now, dbVars, taskVars, ireq, creq, logVars>>

\* VideoGeneration.objects.create(status='pending', ...) and
\* generate_video_task.delay.
VideoCreate(w) ==
    /\ vreq[w].pc = "checked"
    /\ LET row == [vreq[w].mem EXCEPT !.created_at = now]
       IN  /\ videos' = Append(videos, row)
           /\ vtask' = Append(vtask, [state |-> "PENDING", retries |-> 0,
                                      mem |-> EmptyVideo, result |-> "none",
                                      phase |-> "start", attempt |-> 0])
           /\ vreq' = [vreq EXCEPT ![w] =
                         [pc |-> "enqueued", job |-> Len(videos) + 1,
                          mem |-> row]]
    /\ ledgerCalls' = Append(ledgerCalls, 0)
    /\ bridgeCalls' = Append(bridgeCalls, 0)
    /\ UNCHANGED <<now, sub, usage, itins, chats, itask, ctask, ireq, creq, envelope,
                   purchases, paymentsDown, auth>>

\* video.celery_task_id = task.id; video.save();
\* usage_service.record_video_usage(request.user, video, is_free=is_free_quota).
VideoSave(w) ==
    /\ vreq[w].pc = "enqueued"
    /\ LET row == [vreq[w].mem EXCEPT !.celery_task_id = "task"]
           j == vreq[w].job
       IN  /\ videos' = [videos EXCEPT ![j] = row]
           /\ usage' = IF paymentsDown THEN usage
                       ELSE record_video_usage(usage, row.is_free_quota)
           /\ ledgerCalls' = [ledgerCalls EXCEPT ![j] = @ + 1]
    /\ vreq' = [vreq EXCEPT ![w] = IdleVideoReq]
    /\ UNCHANGED <<now, sub, itins, chats, taskVars, ireq, creq, bridgeCalls, envelope,
                   purchases, paymentsDown, auth>>

\* generate_video_task: get the row, status = 'processing', save.
VideoTaskStart(j) ==
    /\ Runnable(vtask[j])
    /\ LET row == [videos[j] EXCEPT !.status = "processing"]
       IN  /\ videos' = [videos EXCEPT ![j] = row]
           /\ vtask' = [vtask EXCEPT ![j] =
                          [@ EXCEPT !.state = "STARTED", !.mem = row,
                                    !.result = "none", !.phase = "start",
                                    !.attempt = 0]]
    /\ UNCHANGED <<now, sub, usage, itins, chats, itask, ctask, reqVars, logVars>>

\* The except branch of generate_video_task: re-read the row, mark it failed
\* with str(e), save, record usage, sync the purchase, self.retry.
VideoTaskExcept(j, res, err) ==
    LET row == [videos[j] EXCEPT !.status = "failed", !.error_message = err]
    IN  /\ videos' = [videos EXCEPT ![j] = row]
        /\ usage' = IF paymentsDown THEN usage ELSE record_video_usage(usage, FALSE)
        /\ ledgerCalls' = [ledgerCalls EXCEPT ![j] = @ + 1]
        /\ bridgeCalls' = [bridgeCalls EXCEPT ![j] = @ + 1]
        /\ purchases' = IF paymentsDown THEN purchases
                        ELSE update_video_purchase_status(purchases, j, row, "failed")
        /\ vtask' = [vtask EXCEPT ![j] =
                       retry([@ EXCEPT !.mem = row, !.result = res])]

\* A terminal save of generate_video_task inside the poll loop or after it,
\* followed by record_video_usage, _update_video_purchase_status and return.
VideoTaskFinish(j, row, res) ==
    /\ videos' = [videos EXCEPT ![j] = row]
    /\ usage' = IF paymentsDown THEN usage ELSE record_video_usage(usage, FALSE)
    /\ ledgerCalls' = [ledgerCalls EXCEPT ![j] = @ + 1]
    /\ bridgeCalls' = [bridgeCalls EXCEPT ![j] = @ + 1]
    /\ purchases' = IF paymentsDown THEN purchases
                    ELSE update_video_purchase_status(purchases, j, row, row.status)
    /\ vtask' = [vtask EXCEPT ![j] =
                   swallowed(returned([@ EXCEPT !.attempt = @ + 1], row, res),
                             paymentsDown)]

\* generate_video_task: the start call and what follows it up to the poll loop.
VideoTaskStartCall(j, r) ==
    /\ vtask[j].state = "STARTED"
    /\ vtask[j].phase = "start"
    /\ CASE r = "failure" ->
              LET row == [vtask[j].mem EXCEPT !.status = "failed",
                                              !.error_message = "gateway error"]
              IN  /\ videos' = [videos EXCEPT ![j] = row]
                  /\ vtask' = [vtask EXCEPT ![j] = returned(@, row, r)]
                  /\ UNCHANGED <<usage, logVars>>
         [] r = "success" ->
              LET row == [vtask[j].mem EXCEPT !.status = "generating",
                                              !.fastapi_video_id = "vid"]
              IN  /\ videos' = [videos EXCEPT ![j] = row]
                  /\ vtask' = [vtask EXCEPT ![j] =
                                 [@ EXCEPT !.mem = row, !.result = r,
                                           !.phase = "poll"]]
                  /\ bridgeCalls' = [bridgeCalls EXCEPT ![j] = @ + 1]
                  /\ purchases' = IF paymentsDown THEN purchases
                                  ELSE update_video_purchase_status(
                                           purchases, j, row, "processing")
                  /\ UNCHANGED <<usage, ledgerCalls>>
         [] OTHER -> VideoTaskExcept(j, r, "exception")
    /\ UNCHANGED <<now, sub, itins, chats, itask, ctask, reqVars, envelope, paymentsDown, auth>>

\* What get_video_status may answer: the gateway's failure envelope, a body
\* that is no JSON object, or the remote job's status and progress.
PollAnswers ==
    {[success |-> FALSE, status |-> "none", progress |-> 0,
      current_day |-> 0, message |-> ""],
     [success |-> TRUE, status |-> "malformed", progress |-> 0,
      current_day |-> 0, message |-> ""],
     [success |-> TRUE, status |-> "processing", progress |-> 50,
      current_day |-> 2, message |-> "rendering"],
     [success |-> TRUE, status |-> "completed", progress |-> 100,
      current_day |-> 3, message |-> "done"],
     [success |-> TRUE, status |-> "failed", progress |-> 50,
      current_day |-> 2, message |-> "rendering"]}

\* Variant of seen that keeps the progress fields until the last poll.
seen_at_completion(row, a) ==
    IF a.status = "completed"
    THEN [row EXCEPT !.progress = a.progress, !.current_day = a.current_day,
                     !.current_stage = a.message]
    ELSE row

\* The fields the poll loop copies from a successful status answer:
\* progress, current_day and current_stage (the answer's message).
seen(row, a) ==
    [row EXCEPT !.progress = a.progress, !.current_day = a.current_day,
                !.current_stage = a.message]

\* Seconds the execution has run when the sleep of poll attempt k (from 0)
\* ends; database and gateway calls are taken to cost no time.
Elapsed(k) == (k + 1) * sleep_seconds

\* One iteration of the poll loop of generate_video_task: time.sleep(30),
\* get_video_status, the branch on the answer; after the last iteration the
\* code that follows the loop.  SoftTimeLimitExceeded is raised in the sleep
\* that reaches soft_time_limit.
VideoTaskPoll(j, a) ==
    /\ vtask[j].state = "STARTED"
    /\ vtask[j].phase = "poll"
    /\ LET t == vtask[j]
           polled == seen(t.mem, a)
       IN  IF Elapsed(t.attempt) >= video_soft_time_limit
           THEN VideoTaskExcept(j, "soft_time_limit", "SoftTimeLimitExceeded()")
           ELSE IF a.success /\ a.status = "malformed"
           THEN VideoTaskExcept(j, "malformed", "exception")
           ELSE IF a.success /\ a.status = "completed"
           THEN VideoTaskFinish(j, [polled EXCEPT !.status = "completed",
                                                !.video_url = "url"], "completed")
           ELSE IF a.success /\ a.status = "failed"
           THEN VideoTaskFinish(j, [polled EXCEPT !.status = "failed",
                                                !.error_message = "remote failure"],
                                "remote_failed")
           ELSE LET row == IF a.success THEN polled ELSE t.mem
                IN  IF t.attempt + 1 = max_attempts
                    THEN VideoTaskFinish(j,
                            [row EXCEPT !.status = "failed",
                                        !.error_message = "Video generation timed out"],
                            "timed_out")
                    ELSE /\ videos' = IF a.success
                                      THEN [videos EXCEPT ![j] = row]
                                      ELSE videos
                         /\ vtask' = [vtask EXCEPT ![j] =
                                        [@ EXCEPT !.mem = row,
                                                  !.result = IF a.success
                                                             THEN "polling"
                                                             ELSE "gateway_error",
                                                  !.attempt = @ + 1]]
                         /\ UNCHANGED <<usage, logVars>>
    /\ UNCHANGED <<now, sub, itins, chats, itask, ctask, reqVars, envelope, paymentsDown, auth>>

\* --------------------------------------------------------------------- chat

EmptyChat ==
    [role |-> "user", status |-> "pending", celery_task_id |-> "",
     error_message |-> "", itinerary |-> 0, created_at |-> 0, message |-> 0]

IdleChatReq == [pc |-> "idle", job |-> 0, mem |-> EmptyChat]

NoTask == [state |-> "NONE", retries |-> 0, mem |-> EmptyChat, result |-> "none"]

UserMessages == {c \in DOMAIN chats : chats[c].role = "user"}

\* ChatView.post up to chat_task.delay: the itinerary must be the user's and
\* completed (404 or 400 otherwise, nothing changed); the user message is
\* created pending.
ChatCreate(w, it) ==
    /\ creq[w].pc = "idle"
    /\ IF it \in DOMAIN itins /\ itins[it].user = "user"
          /\ itins[it].status = "completed"
       THEN LET row == [EmptyChat EXCEPT !.itinerary = it, !.created_at = now]
            IN  /\ chats' = Append(chats, row)
                /\ ctask' = Append(ctask, [NoTask EXCEPT !.state = "PENDING"])
                /\ creq' = [creq EXCEPT ![w] =
                              [pc |-> "enqueued", job |-> Len(chats) + 1,
                               mem |-> row]]
       ELSE UNCHANGED <<chats, ctask, creq>>
    /\ UNCHANGED <<now, sub, usage, itins, videos, itask, vtask, ireq, vreq, logVars>>

\* user_message.celery_task_id = task.id; user_message.save(); 202 response.
ChatSave(w) ==
    /\ creq[w].pc = "enqueued"
    /\ chats' = [chats EXCEPT ![creq[w].job] =
                    [creq[w].mem EXCEPT !.celery_task_id = "task"]]
    /\ creq' = [creq EXCEPT ![w] = IdleChatReq]
    /\ UNCHANGED <<now, sub, usage, itins, videos, taskVars, ireq, vreq, logVars>>

\* chat_task: get the user message, status = 'processing', save.
ChatTaskStart(j) ==
    /\ Runnable(ctask[j])
    /\ LET row == [chats[j] EXCEPT !.status = "processing"]
       IN  /\ chats' = [chats EXCEPT ![j] = row]
           /\ ctask' = [ctask EXCEPT ![j] =
                          [@ EXCEPT !.state = "STARTED", !.mem = row,
                                    !.result = "none"]]
    /\ UNCHANGED <<now, sub, usage, itins, videos, itask, vtask, reqVars, logVars>>

\* chat_task from the gateway call to its end.  On success the assistant
\* message is created (its text, the gateway's answer to user message j, is
\* written j) and the user message completed; the itinerary update
\* re-reads the itinerary row and saves it with new trip details, which
\* changes none of the columns modelled here.
ChatTaskCall(j, r) ==
    /\ ctask[j].state = "STARTED"
    /\ CASE r = "failure" ->
              LET row == [ctask[j].mem EXCEPT !.status = "failed",
                                              !.error_message = "gateway error"]
              IN  /\ chats' = [chats EXCEPT ![j] = row]
                  /\ ctask' = [ctask EXCEPT ![j] = returned(@, row, r)]
         [] r = "success" ->
              LET row == [ctask[j].mem EXCEPT !.status = "completed"]
                  reply == [EmptyChat EXCEPT !.role = "assistant",
                                             !.status = "completed",
                                             !.itinerary = row.itinerary,
                                             !.created_at = now,
                                             !.message = j]
              IN  /\ chats' = Append([chats EXCEPT ![j] = row], reply)
                  /\ ctask' = Append([ctask EXCEPT ![j] = returned(@, row, r)],
                                      NoTask)
         [] OTHER ->
              LET row == [chats[j] EXCEPT !.status = "failed",
                                          !.error_message = "exception"]
              IN  /\ chats' = [chats EXCEPT ![j] = row]
                  /\ ctask' = [ctask EXCEPT ![j] =
                                 retry([@ EXCEPT !.mem = row, !.result = r])]
    /\ UNCHANGED <<now, sub, usage, itins, videos, itask, vtask, reqVars, logVars>>

\* ChatStatusView.get for user message m: for a completed message the first
\* assistant message of the itinerary created after it, in the order of
\* creation (Meta.ordering created_at; rows are numbered as they are
\* created); 0 when the answer holds no response.
chat_status_response(cs, m) ==
    LET later == {c \in DOMAIN cs : /\ cs[c].role = "assistant"
                                    /\ cs[c].itinerary = cs[m].itinerary
                                    /\ c > m}
    IN  IF cs[m].status = "completed" /\ later # {}
        THEN CHOOSE c \in later : \A d \in later : c <= d
        ELSE 0

\* ------------------------------------------------------------------ gateway

\* What the HTTP layer does with a request: a response with a status code and
\* a body, or an exception of the requests library.
HttpOutcomes ==
    {[kind |-> k, code |-> c] :
        k \in {"json", "text"}, c \in {200, 201}}
    \cup {[kind |-> k, code |-> c] :
        k \in {"error_json", "error_list", "error_text"}, c \in {400, 404, 422, 500, 502}}
    \cup {[kind |-> k, code |-> 0] :
        k \in {"timeout", "connection_error", "other_exception"}}

\* FastAPIClient._make_request.  A JSON error body that is no object makes
\* error_data.get raise, which the last except clause turns into a 500.
make_request(method, o) ==
    IF method \notin {"GET", "POST"}
    THEN [success |-> FALSE, error |-> "Unsupported HTTP method"]
    ELSE CASE o.kind = "json" ->
                [success |-> TRUE, data |-> "json", status_code |-> o.code]
           [] o.kind = "text" ->
                [success |-> TRUE, data |-> "text", status_code |-> o.code]
           [] o.kind = "error_json" ->
                [success |-> FALSE, error |-> "detail", status_code |-> o.code,
                 data |-> "json"]
           [] o.kind = "error_text" ->
                [success |-> FALSE, error |-> "text", status_code |-> o.code,
                 data |-> "none"]
           [] o.kind = "timeout" ->
                [success |-> FALSE,
                 error |-> "Request timed out. The AI service is taking too long.",
                 status_code |-> 504]
           [] o.kind = "connection_error" ->
                [success |-> FALSE,
                 error |-> "Could not connect to AI service. Please try again later.",
                 status_code |-> 503]
           [] OTHER ->
                [success |-> FALSE, error |-> "str(e)", status_code |-> 500]

\* FastAPIClient.health_check: any response counts as healthy, any exception
\* as unhealthy.
health_check(o) ==
    IF o.kind \in {"timeout", "connection_error", "other_exception"}
    THEN [success |-> FALSE, status |-> "unhealthy", error |-> "str(e)"]
    ELSE [success |-> TRUE, status |-> "healthy", status_code |-> o.code]

\* The operations of the gateway client with the HTTP method each one uses.
GatewayOperations ==
    {[name |-> "create_itinerary", method |-> "POST"],
     [name |-> "get_itinerary", method |-> "GET"],
     [name |-> "reallocate_budget", method |-> "POST"],
     [name |-> "chat", method |-> "POST"],
     [name |-> "upload_photo", method |-> "POST"],
     [name |-> "generate_video", method |-> "POST"],
     [name |-> "get_video_status", method |-> "GET"],
     [name |-> "health_check", method |-> "GET"]}

NoEnvelope == [operation |-> "none", outcome |-> "none", result |-> [success |-> FALSE]]

\* One call of a gateway operation and what it hands to its caller.
GatewayCall(op, o) ==
    /\ envelope' = [operation |-> op.name, outcome |-> o.kind,
                    result |-> IF op.name = "health_check"
                               THEN health_check(o)
                               ELSE make_request(op.method, o)]
    /\ UNCHANGED <<now, dbVars, taskVars, reqVars, ledgerCalls, bridgeCalls,
                   purchases, paymentsDown, auth>>

\* ------------------------------------------------------- subscription, clock

\* What CreateSubscriptionView.post leaves: an active subscription whose
\* period is the one Stripe opens at the time of the call, and a fresh
\* UsageTracking row with the plan's free videos.
Subscribed(plan, t) ==
    [exists |-> TRUE, plan |-> plan, status |-> "active",
     stripe_subscription_id |-> "sub",
     current_period_start |-> t, current_period_end |-> t + MonthLen]

FreshUsage(plan) ==
    [exists |-> TRUE, itineraries_generated |-> 0, videos_generated |-> 0,
     videos_remaining |-> PLAN_LIMITS(plan).videos_per_month]

\* CreateSubscriptionView.post: 409 when a paid plan is already held.
CreateSubscription(plan) ==
    /\ ~(sub.exists /\ sub.plan \notin {"none", "basic"})
    /\ sub' = Subscribed(plan, now)
    /\ usage' = FreshUsage(plan)
    /\ UNCHANGED <<now, itins, videos, chats, taskVars, reqVars, logVars>>

\* StripeWebhookView._handle_subscription_deleted: status cancelled, plan
\* basic, Stripe id cleared; the stored period is left as it is.
SubscriptionDeleted ==
    /\ sub.exists
    /\ sub.stripe_subscription_id # ""
    /\ sub' = [sub EXCEPT !.status = "cancelled", !.plan = "basic",
                          !.stripe_subscription_id = ""]
    /\ UNCHANGED <<now, usage, itins, videos, chats, taskVars, reqVars, logVars>>

\* VideoPurchaseView.post: the user buys a video; a Payment and a pending
\* VideoPurchase are created.
VideoPurchase ==
    /\ ~paymentsDown
    /\ Len(purchases) < MaxPurchases
    /\ purchases' = Append(purchases, NewPurchase(Len(purchases) + 1, now))
    /\ UNCHANGED <<now, dbVars, taskVars, reqVars, ledgerCalls, bridgeCalls, envelope,
                   paymentsDown, auth>>

\* The payments tables become unavailable, and available again.
PaymentsOutage ==
    /\ paymentsDown' = ~paymentsDown
    /\ UNCHANGED <<now, dbVars, taskVars, reqVars, ledgerCalls, bridgeCalls, envelope,
                   purchases, auth>>

\* ----------------------------------------------------------- authentication

\* The user's password ("p0" when the account was made), the password-reset
\* OTP rows and the PasswordResetToken rows of the user.
NoAuth == [password |-> "p0", otps |-> <<>>, tokens |-> <<>>]

Passwords == {"p1", "p2"}

\* OTP.is_valid / PasswordResetToken.is_valid.
is_valid(row, t) == ~row.is_used /\ row.expires_at > t

\* PasswordResetRequestView.post for the user's email: an OTP row of type
\* password_reset, valid for OtpLife.
PasswordResetRequest ==
    /\ Len(auth.otps) < MaxOtps
    /\ auth' = [auth EXCEPT !.otps =
                   Append(@, [is_used |-> FALSE, expires_at |-> now + OtpLife])]
    /\ UNCHANGED <<now, dbVars, taskVars, reqVars, ledgerCalls, bridgeCalls,
                   envelope, purchases, paymentsDown>>

\* VerifyResetOTPView.post with the code of OTP row o: an unused row is
\* needed ("Invalid OTP code" otherwise), an expired one answers "OTP has
\* expired"; else the row is used up and a reset token is created.
VerifyResetOTP(o) ==
    /\ o \in DOMAIN auth.otps
    /\ ~auth.otps[o].is_used
    /\ is_valid(auth.otps[o], now)
    /\ auth' = [auth EXCEPT !.otps[o].is_used = TRUE,
                            !.tokens = Append(@, [is_used |-> FALSE,
                                                  expires_at |-> now + TokenLife])]
    /\ UNCHANGED <<now, dbVars, taskVars, reqVars, ledgerCalls, bridgeCalls,
                   envelope, purchases, paymentsDown>>

\* PasswordResetView.post with the user's email and a new password:
\* set_password, save, and every reset token of the user is marked used.
PasswordReset(new_password) ==
    /\ auth' = [auth EXCEPT !.password = new_password,
                            !.tokens = [t \in DOMAIN @ |->
                                           [@[t] EXCEPT !.is_used = TRUE]]]
    /\ UNCHANGED <<now, dbVars, taskVars, reqVars, ledgerCalls, bridgeCalls,
                   envelope, purchases, paymentsDown>>

\* The passing of time.
Tick ==
    /\ now < MaxTime
    /\ now' = now + 1
    /\ UNCHANGED <<dbVars, taskVars, reqVars, logVars>>

\* ----------------------------------------------------------- specifications

Slots == 1 .. WebWorkers

\* Requests of the job lifecycle specification: standard quality, without a
\* payment session or with a paid one of the user's.
Qualities == {"standard"}
PaymentSessionIds == {"", "cs_paid"}

InitJobs ==
    /\ itins = <<>> /\ videos = <<>> /\ chats = <<>>
    /\ itask = <<>> /\ vtask = <<>> /\ ctask = <<>>
    /\ ireq = [w \in Slots |-> IdleItinReq]
    /\ vreq = [w \in Slots |-> IdleVideoReq]
    /\ creq = [w \in Slots |-> IdleChatReq]
    /\ ledgerCalls = <<>> /\ bridgeCalls = <<>> /\ envelope = NoEnvelope
    /\ purchases = <<>> /\ paymentsDown = FALSE
    /\ auth = NoAuth

\* The user has no subscription, or has subscribed to a paid plan at time 0.
InitPlan(plans) ==
    /\ now = 0
    /\ \/ sub = NoSubscription /\ usage = NoUsage
       \/ \E p \in plans : sub = Subscribed(p, 0) /\ usage = FreshUsage(p)

Init == InitPlan({"pro"}) /\ InitJobs

\* Jobs admitted or enqueued whose task has not ended.
ActiveJobs ==
    Cardinality({j \in DOMAIN itask : ~Ended(itask[j])})
    + Cardinality({j \in DOMAIN vtask : ~Ended(vtask[j])})
    + Cardinality({j \in DOMAIN ctask : ~Ended(ctask[j])})
    + Cardinality({w \in Slots : ireq[w].pc = "checked"})
    + Cardinality({w \in Slots : vreq[w].pc = "checked"})

MayAdmit == ActiveJobs < MaxActiveJobs

FollowUps == Len(videos) + Cardinality(UserMessages)

ItineraryStepN(limit) ==
    \/ \E w \in Slots : Len(itins) < limit /\ MayAdmit /\ ItineraryCheck(w)
    \/ \E w \in Slots : ItineraryCreate(w)
    \/ \E w \in Slots : ItinerarySave(w)
    \/ \E j \in DOMAIN itask : ItinTaskStart(j)
    \/ \E j \in DOMAIN itask, r \in GatewayAnswers : ItinTaskCall(j, r)

VideoTaskStep(starts, answers) ==
    \/ \E j \in DOMAIN vtask : VideoTaskStart(j)
    \/ \E j \in DOMAIN vtask, r \in starts : VideoTaskStartCall(j, r)
    \/ \E j \in DOMAIN vtask, a \in answers : VideoTaskPoll(j, a)

VideoStepN(limit, psids, starts, answers) ==
    \/ \E w \in Slots, it \in 0 .. MaxItins, q \in Qualities, p \in psids :
          FollowUps < limit /\ MayAdmit /\ VideoCheck(w, it, q, p)
    \/ \E w \in Slots : VideoCreate(w)
    \/ \E w \in Slots : VideoSave(w)
    \/ VideoTaskStep(starts, answers)

ChatStep ==
    \/ \E w \in Slots, it \in 0 .. MaxItins :
          FollowUps < MaxFollowUps /\ MayAdmit /\ ChatCreate(w, it)
    \/ \E w \in Slots : ChatSave(w)
    \/ \E j \in DOMAIN ctask : ChatTaskStart(j)
    \/ \E j \in DOMAIN ctask, r \in GatewayAnswers : ChatTaskCall(j, r)

Next ==
    \/ ItineraryStepN(MaxItins)
    \/ VideoStepN(MaxFollowUps, PaymentSessionIds, GatewayAnswers, PollAnswers)
    \/ ChatStep

\* The job lifecycle: one user, the clock standing still.
Spec == Init /\ [][Next]_vars

\* The billing period: one user subscribing, cancelling and creating
\* itineraries while time passes.
PeriodInit ==
    /\ now = 0 /\ sub = NoSubscription /\ usage = NoUsage
    /\ InitJobs

PeriodNext ==
    \/ ItineraryStepN(MaxPeriodItins)
    \/ \E p \in {"premium"} : CreateSubscription(p)
    \/ SubscriptionDeleted
    \/ Tick

PeriodSpec == PeriodInit /\ [][PeriodNext]_vars

\* The video quota: one user with a completed itinerary asking for videos
\* within one billing period; the gateway accepts or refuses the start call
\* and the first poll finds the video completed.
CompletedItin ==
    [EmptyItin EXCEPT !.status = "completed", !.celery_task_id = "task",
                      !.fastapi_itinerary_id = "fid"]

QuotaInit ==
    /\ InitPlan({"premium", "pro"})
    /\ itins = <<CompletedItin>>
    /\ itask = <<[state |-> "SUCCESS", retries |-> 0, mem |-> CompletedItin,
                  result |-> "success"]>>
    /\ videos = <<>> /\ chats = <<>> /\ vtask = <<>> /\ ctask = <<>>
    /\ ireq = [w \in Slots |-> IdleItinReq]
    /\ vreq = [w \in Slots |-> IdleVideoReq]
    /\ creq = [w \in Slots |-> IdleChatReq]
    /\ ledgerCalls = <<>> /\ bridgeCalls = <<>> /\ envelope = NoEnvelope
    /\ purchases = <<>> /\ paymentsDown = FALSE
    /\ auth = NoAuth

\* The client sends a payment session only once it has been told that
\* payment is required.
QuotaSessionIds ==
    IF can_generate_video(sub, now, videos).requires_payment
    THEN {"cs_paid"} ELSE {""}

QuotaNext ==
    VideoStepN(MaxQuotaVideos, QuotaSessionIds, {"success", "failure"},
               {a \in PollAnswers : a.status = "completed"})

QuotaSpec == QuotaInit /\ [][QuotaNext]_vars

\* Admission of video and itinerary requests: the user holds a completed
\* itinerary, another user holds one too; requests of every kind arrive, one
\* itinerary job and one video job under way at a time.
ForeignItin == [CompletedItin EXCEPT !.user = "other"]

AdmissionInit ==
    /\ InitPlan({"premium", "pro"})
    /\ itins = <<CompletedItin, ForeignItin>>
    /\ itask = <<[state |-> "SUCCESS", retries |-> 0, mem |-> CompletedItin,
                  result |-> "success"],
                 [state |-> "SUCCESS", retries |-> 0, mem |-> ForeignItin,
                  result |-> "success"]>>
    /\ videos = <<>> /\ chats = <<>> /\ vtask = <<>> /\ ctask = <<>>
    /\ ireq = [w \in Slots |-> IdleItinReq]
    /\ vreq = [w \in Slots |-> IdleVideoReq]
    /\ creq = [w \in Slots |-> IdleChatReq]
    /\ ledgerCalls = <<>> /\ bridgeCalls = <<>> /\ envelope = NoEnvelope
    /\ purchases = <<>> /\ paymentsDown = FALSE
    /\ auth = NoAuth

AllQualities == {"standard", "high"}
AllSessionIds == {"", "cs_paid", "cs_unpaid", "cs_foreign", "cs_unknown"}

NoItinUnderWay ==
    /\ \A w \in Slots : ireq[w].pc = "idle"
    /\ \A j \in DOMAIN itask : Ended(itask[j])

NoVideoUnderWay ==
    /\ \A w \in Slots : vreq[w].pc = "idle"
    /\ \A j \in DOMAIN vtask : Ended(vtask[j])

AdmissionNext ==
    \/ \E w \in Slots :
          Len(itins) < 2 + MaxAdmitItins /\ NoItinUnderWay /\ ItineraryCheck(w)
    \/ \E w \in Slots : ItineraryCreate(w)
    \/ \E w \in Slots : ItinerarySave(w)
    \/ \E j \in DOMAIN itask : ItinTaskStart(j)
    \/ \E j \in DOMAIN itask, r \in {"success", "failure"} : ItinTaskCall(j, r)
    \/ \E w \in Slots, it \in 0 .. Len(itins), q \in AllQualities, p \in AllSessionIds :
          Len(videos) < MaxAdmitVideos /\ NoVideoUnderWay /\ VideoCheck(w, it, q, p)
    \/ \E w \in Slots : VideoCreate(w)
    \/ \E w \in Slots : VideoSave(w)
    \/ VideoTaskStep({"success", "failure"},
                     {a \in PollAnswers : a.status = "completed"})

AdmissionSpec == AdmissionInit /\ [][AdmissionNext]_vars

\* Concurrent requests: a basic user with a completed itinerary and one paid
\* payment session sends video requests that the web workers handle at the
\* same time.
RaceInit ==
    /\ now = 0 /\ sub = NoSubscription /\ usage = NoUsage
    /\ itins = <<CompletedItin>>
    /\ itask = <<[state |-> "SUCCESS", retries |-> 0, mem |-> CompletedItin,
                  result |-> "success"]>>
    /\ videos = <<>> /\ chats = <<>> /\ vtask = <<>> /\ ctask = <<>>
    /\ ireq = [w \in Slots |-> IdleItinReq]
    /\ vreq = [w \in Slots |-> IdleVideoReq]
    /\ creq = [w \in Slots |-> IdleChatReq]
    /\ ledgerCalls = <<>> /\ bridgeCalls = <<>> /\ envelope = NoEnvelope
    /\ purchases = <<>> /\ paymentsDown = FALSE
    /\ auth = NoAuth

RaceNext ==
    \/ \E w \in Slots :
          /\ Len(videos) + Cardinality({v \in Slots : vreq[v].pc = "checked"})
                < MaxRaceVideos
          /\ VideoCheck(w, 1, "standard", "cs_paid")
    \/ \E w \in Slots : VideoCreate(w)
    \/ \E w \in Slots : VideoSave(w)
    \/ VideoTaskStep({"success", "failure"},
                     {a \in PollAnswers : a.status = "completed"})

RaceSpec == RaceInit /\ [][RaceNext]_vars

\* The payment bridge and the ledger: the job lifecycle with a video
\* purchase and with outages of the payments tables.
\* The client buys a video before it sends the request that carries the
\* session of the purchase.
PurchaseStep ==
    /\ Len(videos) = 0
    /\ \A w \in DOMAIN vreq : vreq[w].pc = "idle"
    /\ VideoPurchase

PurchaseNext ==
    \/ ItineraryStepN(MaxItins)
    \/ VideoStepN(MaxFollowUps, PaymentSessionIds, GatewayAnswers,
                  {a \in PollAnswers : a.status \in {"completed", "failed"}})
    \/ PurchaseStep

\* Purchases and video jobs while the payments tables are available.
PurchaseSpec == Init /\ [][PurchaseNext]_vars

BridgeNext ==
    \/ PurchaseNext
    \/ PaymentsOutage

BridgeSpec == Init /\ [][BridgeNext]_vars

\* The bridge applied to purchase tables of every shape: job 1 is the job
\* the purchases may belong to, job 2 another job of the user; a purchase
\* row has one of two payments, is unlinked or linked to one of the jobs
\* (one-to-one), and was created in the tick of the jobs or the tick after.
BridgeStatuses == {"processing", "completed", "failed"}

PurchaseRows ==
    {[NewPurchase(pay, t) EXCEPT !.video_generation = link] :
        pay \in 1 .. 2, link \in 0 .. 2, t \in 0 .. 1}

PurchaseTables ==
    {ps \in UNION {[1 .. n -> PurchaseRows] : n \in 0 .. MaxResolvePurchases} :
        \A p, q \in DOMAIN ps :
            (ps[p].video_generation # 0
                /\ ps[p].video_generation = ps[q].video_generation) => p = q}

GeneratingTask(row) ==
    [state |-> "STARTED", retries |-> 0, mem |-> row, result |-> "success",
     phase |-> "poll", attempt |-> 0]

ResolveInit ==
    /\ now = 1 /\ sub = NoSubscription /\ usage = NoUsage
    /\ itins = <<CompletedItin>>
    /\ itask = <<[state |-> "SUCCESS", retries |-> 0, mem |-> CompletedItin,
                  result |-> "success"]>>
    /\ \E paid \in BOOLEAN, psid \in {"", "cs_paid"}, pay \in 0 .. 1,
          url \in {"", "url"} :
          LET job == [EmptyVideo EXCEPT !.status = "generating",
                                        !.fastapi_video_id = "vid",
                                        !.itinerary = 1,
                                        !.is_paid = paid,
                                        !.is_free_quota = ~paid,
                                        !.payment_session_id = psid,
                                        !.payment = pay,
                                        !.video_url = url]
              other == [EmptyVideo EXCEPT !.status = "generating",
                                          !.fastapi_video_id = "vid",
                                          !.itinerary = 1,
                                          !.is_free_quota = TRUE]
          IN  /\ videos = <<job, other>>
              /\ vtask = <<GeneratingTask(job), GeneratingTask(other)>>
    /\ chats = <<>> /\ ctask = <<>>
    /\ ireq = [w \in Slots |-> IdleItinReq]
    /\ vreq = [w \in Slots |-> IdleVideoReq]
    /\ creq = [w \in Slots |-> IdleChatReq]
    /\ ledgerCalls = <<0, 0>> /\ bridgeCalls = <<0, 0>> /\ envelope = NoEnvelope
    /\ purchases \in PurchaseTables /\ paymentsDown = FALSE
    /\ auth = NoAuth

\* A call _update_video_purchase_status(video, status).
BridgeUpdate(j, status) ==
    /\ bridgeCalls[j] < MaxBridgeCalls
    /\ bridgeCalls' = [bridgeCalls EXCEPT ![j] = @ + 1]
    /\ purchases' = update_video_purchase_status(purchases, j, videos[j], status)
    /\ UNCHANGED <<now, dbVars, taskVars, reqVars, ledgerCalls, envelope,
                   paymentsDown, auth>>

ResolveNext ==
    \E j \in DOMAIN videos, status \in BridgeStatuses : BridgeUpdate(j, status)

ResolveSpec == ResolveInit /\ [][ResolveNext]_vars

\* Requests in bursts: itinerary requests of a basic user and free-quota
\* video requests of a premium user arrive while earlier requests and jobs
\* of the same kind are still under way.
BurstInit ==
    /\ now = 0
    /\ \/ sub = NoSubscription /\ usage = NoUsage /\ itins = <<>> /\ itask = <<>>
       \/ /\ sub = Subscribed("premium", 0) /\ usage = FreshUsage("premium")
          /\ itins = <<CompletedItin>>
          /\ itask = <<[state |-> "SUCCESS", retries |-> 0, mem |-> CompletedItin,
                        result |-> "success"]>>
    /\ videos = <<>> /\ chats = <<>> /\ vtask = <<>> /\ ctask = <<>>
    /\ ireq = [w \in Slots |-> IdleItinReq]
    /\ vreq = [w \in Slots |-> IdleVideoReq]
    /\ creq = [w \in Slots |-> IdleChatReq]
    /\ ledgerCalls = <<>> /\ bridgeCalls = <<>> /\ envelope = NoEnvelope
    /\ purchases = <<>> /\ paymentsDown = FALSE
    /\ auth = NoAuth

BurstNext ==
    \/ \E w \in Slots :
          /\ get_user_plan(sub) = "basic"
          /\ Len(itins) + Cardinality({v \in Slots : ireq[v].pc = "checked"})
                < MaxBurstItins
          /\ ItineraryCheck(w)
    \/ \E w \in Slots : ItineraryCreate(w)
    \/ \E w \in Slots : ItinerarySave(w)
    \/ \E j \in DOMAIN itask : ItinTaskStart(j)
    \/ \E j \in DOMAIN itask, r \in {"success", "failure"} : ItinTaskCall(j, r)
    \/ \E w \in Slots :
          /\ Len(videos) + Cardinality({v \in Slots : vreq[v].pc = "checked"})
                < MaxBurstVideos
          /\ VideoCheck(w, 1, "standard", "")
    \/ \E w \in Slots : VideoCreate(w)
    \/ \E w \in Slots : VideoSave(w)
    \/ VideoTaskStep({"success"}, {a \in PollAnswers : a.status = "completed"})

BurstSpec == BurstInit /\ [][BurstNext]_vars

\* A video job whose remote side reports its progress: 30%, 60%, then
\* completed with 100%, in any order and number of polls.
ProgressAnswers ==
    {[success |-> TRUE, status |-> "processing", progress |-> 30,
      current_day |-> 1, message |-> "planning"],
     [success |-> TRUE, status |-> "processing", progress |-> 60,
      current_day |-> 2, message |-> "rendering"],
     [success |-> TRUE, status |-> "completed", progress |-> 100,
      current_day |-> 3, message |-> "done"]}

ProgressInit ==
    /\ now = 0 /\ sub = Subscribed("pro", 0) /\ usage = FreshUsage("pro")
    /\ itins = <<CompletedItin>>
    /\ itask = <<[state |-> "SUCCESS", retries |-> 0, mem |-> CompletedItin,
                  result |-> "success"]>>
    /\ videos = <<>> /\ chats = <<>> /\ vtask = <<>> /\ ctask = <<>>
    /\ ireq = [w \in Slots |-> IdleItinReq]
    /\ vreq = [w \in Slots |-> IdleVideoReq]
    /\ creq = [w \in Slots |-> IdleChatReq]
    /\ ledgerCalls = <<>> /\ bridgeCalls = <<>> /\ envelope = NoEnvelope
    /\ purchases = <<>> /\ paymentsDown = FALSE
    /\ auth = NoAuth

ProgressNext ==
    VideoStepN(MaxProgressVideos, {""}, {"success"}, ProgressAnswers)

ProgressSpec == ProgressInit /\ [][ProgressNext]_vars

\* The ledger's record_video_usage applied to usage records of every
\* shape: no record, or a record with some videos generated and some free
\* videos remaining.
LedgerInit ==
    /\ now = 0 /\ sub = NoSubscription
    /\ \/ usage = NoUsage
       \/ \E r \in 0 .. MaxRemaining, g \in 0 .. MaxGenerated :
             usage = [FreshUsage("pro") EXCEPT !.videos_remaining = r,
                                               !.videos_generated = g]
    /\ itins = <<CompletedItin>>
    /\ itask = <<[state |-> "SUCCESS", retries |-> 0, mem |-> CompletedItin,
                  result |-> "success"]>>
    /\ LET job == [EmptyVideo EXCEPT !.status = "generating",
                                     !.fastapi_video_id = "vid",
                                     !.itinerary = 1]
       IN  videos = <<job>> /\ vtask = <<GeneratingTask(job)>>
    /\ chats = <<>> /\ ctask = <<>>
    /\ ireq = [w \in Slots |-> IdleItinReq]
    /\ vreq = [w \in Slots |-> IdleVideoReq]
    /\ creq = [w \in Slots |-> IdleChatReq]
    /\ ledgerCalls = <<0>> /\ bridgeCalls = <<0>> /\ envelope = NoEnvelope
    /\ purchases = <<>> /\ paymentsDown = FALSE
    /\ auth = NoAuth

\* A call usage_service.record_video_usage(user, video, is_free).
RecordVideoUsage(j, is_free) ==
    /\ ledgerCalls[j] < MaxLedgerCalls
    /\ ledgerCalls' = [ledgerCalls EXCEPT ![j] = @ + 1]
    /\ usage' = record_video_usage(usage, is_free)
    /\ UNCHANGED <<now, sub, itins, videos, chats, taskVars, reqVars, bridgeCalls,
                   envelope, purchases, paymentsDown, auth>>

LedgerNext ==
    \E j \in DOMAIN videos, is_free \in BOOLEAN : RecordVideoUsage(j, is_free)

LedgerSpec == LedgerInit /\ [][LedgerNext]_vars

\* Password reset: requests for an OTP, verifications, resets, and time.
AuthInit ==
    /\ now = 0 /\ sub = NoSubscription /\ usage = NoUsage
    /\ InitJobs

AuthNext ==
    \/ PasswordResetRequest
    \/ \E o \in 1 .. MaxOtps : VerifyResetOTP(o)
    \/ \E p \in Passwords : PasswordReset(p)
    \/ Tick

AuthSpec == AuthInit /\ [][AuthNext]_vars

\* Chat turns on one completed itinerary, several of them in flight at a
\* time.
ChatInit ==
    /\ now = 0 /\ sub = NoSubscription /\ usage = NoUsage
    /\ itins = <<CompletedItin>>
    /\ itask = <<[state |-> "SUCCESS", retries |-> 0, mem |-> CompletedItin,
                  result |-> "success"]>>
    /\ videos = <<>> /\ chats = <<>> /\ vtask = <<>> /\ ctask = <<>>
    /\ ireq = [w \in Slots |-> IdleItinReq]
    /\ vreq = [w \in Slots |-> IdleVideoReq]
    /\ creq = [w \in Slots |-> IdleChatReq]
    /\ ledgerCalls = <<>> /\ bridgeCalls = <<>> /\ envelope = NoEnvelope
    /\ purchases = <<>> /\ paymentsDown = FALSE
    /\ auth = NoAuth

ChatNext ==
    \/ \E w \in Slots :
          Cardinality(UserMessages) < MaxChatTurns /\ ChatCreate(w, 1)
    \/ \E w \in Slots : ChatSave(w)
    \/ \E j \in DOMAIN ctask : ChatTaskStart(j)
    \/ \E j \in DOMAIN ctask, r \in {"success", "failure"} : ChatTaskCall(j, r)

ChatSpec == ChatInit /\ [][ChatNext]_vars

\* The gateway client called by the views and the tasks.
GatewayInit ==
    /\ now = 0 /\ sub = NoSubscription /\ usage = NoUsage
    /\ InitJobs

GatewayNext == \E op \in GatewayOperations, o \in HttpOutcomes : GatewayCall(op, o)

GatewaySpec == GatewayInit /\ [][GatewayNext]_vars

\* ------------------------------------------------------------------- claims

\* The request handler that created job j has not yet made its last save.
RequestOpen(req, j) ==
    \E w \in DOMAIN req : req[w].pc = "enqueued" /\ req[w].job = j

StatusKept(rows, req) ==
    \A j \in DOMAIN rows :
        (rows[j].status \in Terminal /\ ~RequestOpen(req, j))
            => rows'[j].status = rows[j].status

\* C1: once the persisted status of an itinerary, video or chat job is
\* completed or failed, no later step of the task, of its exception handler
\* or of a Celery retry changes it.  (Steps of the request handler that
\* created the job are left out here.)
C1_TerminalStatusIsKept ==
    [][/\ StatusKept(itins, ireq)
       /\ StatusKept(videos, vreq)
       /\ StatusKept(chats, creq)]_vars

\* C2: for every video job record_video_usage and
\* _update_video_purchase_status are each called exactly once, in the step in
\* which the job's status becomes completed or failed.
C2_SideEffectsOnceAtTerminalStep ==
    /\ [](\A j \in DOMAIN videos :
            (Ended(vtask[j]) /\ ~RequestOpen(vreq, j))
                => ledgerCalls[j] = 1 /\ bridgeCalls[j] = 1)
    /\ [][\A j \in DOMAIN videos :
            (ledgerCalls'[j] # ledgerCalls[j] \/ bridgeCalls'[j] # bridgeCalls[j])
                => /\ ledgerCalls'[j] <= 1
                   /\ bridgeCalls'[j] <= 1
                   /\ videos[j].status \notin Terminal
                   /\ videos'[j].status \in Terminal]_vars

\* C3: recording usage again for a job that was already recorded leaves the
\* ledger counter videos_generated as the first recording left it.
C3_RecordingIsIdempotent ==
    [][\A j \in DOMAIN videos :
          (ledgerCalls[j] >= 1 /\ ledgerCalls'[j] > ledgerCalls[j])
              => usage'.videos_generated = usage.videos_generated]_vars

\* C4: an execution of generate_video_task whose polls never see the remote
\* job completed or failed ends after 40 polls in status failed with
\* 'Video generation timed out', returns (no retry), and the ledger and the
\* bridge have each been called once for the job.
C4_TimeoutAfterFortyPolls ==
    \A j \in DOMAIN vtask :
        (vtask[j].state # "STARTED" /\ vtask[j].phase = "poll"
            /\ vtask[j].result \in {"soft_time_limit", "timed_out"})
        => /\ vtask[j].attempt = 40
           /\ vtask[j].state = "SUCCESS"
           /\ vtask[j].mem.status = "failed"
           /\ vtask[j].mem.error_message = "Video generation timed out"
           /\ ledgerCalls[j] = 1
           /\ bridgeCalls[j] = 1

Settled(rows, tasks, req) ==
    \A j \in DOMAIN rows :
        (tasks[j].state \in {"SUCCESS", "FAILURE"} /\ ~RequestOpen(req, j))
            => rows[j].status \in Terminal

\* C5: when the task of an enqueued job has ended and the request handler
\* has made its last save, the persisted status is completed or failed.
C5_EndedJobsAreTerminal ==
    /\ Settled(itins, itask, ireq)
    /\ Settled(videos, vtask, vreq)
    /\ Settled(chats, ctask, creq)

Rank(st) ==
    CASE st = "pending" -> 0
      [] st = "processing" -> 1
      [] st = "generating" -> 2
      [] OTHER -> 3

Forward(rows) ==
    \A j \in DOMAIN rows :
        /\ Rank(rows'[j].status) >= Rank(rows[j].status)
        /\ rows[j].status \in Terminal => rows'[j].status = rows[j].status

\* C6: the persisted status of a job only moves forward along pending,
\* processing, generating, then completed or failed, in every step of the
\* request handler and of the worker.
C6_StatusOnlyMovesForward ==
    [][Forward(itins) /\ Forward(videos) /\ Forward(chats)]_vars

AllTasks ==
    {itask[j] : j \in DOMAIN itask} \cup {vtask[j] : j \in DOMAIN vtask}
        \cup {ctask[j] : j \in DOMAIN ctask}

Raised == {"malformed", "soft_time_limit"}

TasksStep(tasks) ==
    \A j \in DOMAIN tasks :
        \* an ended task is never run again
        /\ Ended(tasks[j]) => tasks'[j] = tasks[j]
        \* a retry is counted only by an execution that raised
        /\ tasks'[j].retries # tasks[j].retries
              => /\ tasks'[j].retries = tasks[j].retries + 1
                 /\ tasks[j].state = "STARTED"
                 /\ tasks'[j].state = "RETRY"
                 /\ tasks'[j].result \in Raised
        \* the task ends in FAILURE only by its third execution raising
        /\ (tasks'[j].state = "FAILURE" /\ tasks[j].state # "FAILURE")
              => /\ tasks[j].state = "STARTED"
                 /\ tasks[j].retries = 2
                 /\ tasks'[j].result \in Raised
        \* an execution starts only for a queued task or a scheduled retry
        /\ (tasks'[j].state = "STARTED" /\ tasks[j].state # "STARTED")
              => tasks[j].state \in {"PENDING", "RETRY"}

\* The step in which a task ends in FAILURE saves the job's row failed.
FailsForGood(rows, tasks) ==
    \A j \in DOMAIN tasks :
        (tasks'[j].state = "FAILURE" /\ tasks[j].state # "FAILURE")
            => rows'[j].status = "failed"

\* C7: an exception in a task execution re-runs the task at most 2 more
\* times; the task fails for good (Celery state FAILURE, job row written
\* failed by that execution's handler) only when the third execution has
\* raised, and after that no execution or remote call happens for the job.
C7_BoundedRetry ==
    /\ [](\A t \in AllTasks :
            /\ t.retries <= 2
            /\ t.state = "RETRY" => t.retries >= 1
            /\ t.state = "FAILURE"
                  => t.retries = 2 /\ t.result \in Raised /\ t.mem.status = "failed")
    /\ [][TasksStep(itask) /\ TasksStep(vtask) /\ TasksStep(ctask)]_vars
    /\ [][FailsForGood(itins, itask) /\ FailsForGood(videos, vtask)
            /\ FailsForGood(chats, ctask)]_vars

C7_Witness ==
    \E j \in DOMAIN vtask : vtask[j].state = "FAILURE" /\ vtask[j].retries = 2

RemoteFailure == {"failure", "remote_failed"}

FailsAtOnce(rows, tasks) ==
    \A j \in DOMAIN tasks :
        (tasks'[j].result \in RemoteFailure /\ tasks'[j] # tasks[j])
           => /\ rows'[j].status = "failed"
              /\ tasks'[j].state = "SUCCESS"

NotRunAgain(tasks) ==
    \A j \in DOMAIN tasks :
        tasks[j].result \in RemoteFailure => tasks'[j] = tasks[j]

\* C8: when the gateway answers the create, start or chat call with
\* success=false, or a video status poll reports status 'failed', the job is
\* saved failed in that step, the task returns and is not run again.
C8_RemoteFailureIsFinal ==
    /\ [][FailsAtOnce(itins, itask) /\ FailsAtOnce(videos, vtask)
            /\ FailsAtOnce(chats, ctask)]_vars
    /\ [][NotRunAgain(itask) /\ NotRunAgain(vtask) /\ NotRunAgain(ctask)]_vars

C8_Witness ==
    \E j \in DOMAIN vtask :
        /\ vtask[j].result = "remote_failed"
        /\ vtask[j].state = "SUCCESS"
        /\ videos[j].status = "failed"

\* The billing period of section "Billing period resolution": the stored
\* period of an active subscription, else the calendar month containing now.
CurrentPeriod ==
    IF sub.exists /\ sub.status = "active" /\ sub.current_period_start # Null
    THEN <<sub.current_period_start, sub.current_period_end>>
    ELSE <<(now \div MonthLen) * MonthLen, (now \div MonthLen) * MonthLen + MonthLen>>

CompletedThisPeriod ==
    Cardinality({i \in DOMAIN itins :
        /\ itins[i].status = "completed"
        /\ itins[i].created_at >= CurrentPeriod[1]
        /\ itins[i].created_at < CurrentPeriod[2]})

\* C9: can_create_itinerary permits the user exactly when the resolved plan
\* is premium or pro, or it is basic and the user has no completed itinerary
\* in the current billing period.
C9_ItineraryPermission ==
    can_create_itinerary(sub, now, itins)
        <=> \/ get_user_plan(sub) \in {"premium", "pro"}
            \/ get_user_plan(sub) = "basic" /\ CompletedThisPeriod = 0

FreeAllowance ==
    CASE get_user_plan(sub) = "premium" -> 3
      [] get_user_plan(sub) = "pro" -> 5
      [] OTHER -> 0

\* Free-quota videos of the billing period.
FreeRows == {j \in DOMAIN videos : videos[j].is_free_quota}

\* Those of them that have not failed.
LiveFreeRows == {j \in FreeRows : videos[j].status # "failed"}

Admitted(w) == vreq[w].pc = "idle" /\ vreq'[w].pc = "checked"

\* C10 (amended): a video request is admitted on free quota exactly when
\* fewer than N free-quota jobs of the billing period have a status other
\* than failed, N being 0 for basic, 3 for premium and 5 for pro; otherwise
\* the request requires payment.  The job is created with the flags of the
\* admission.
C10_FreeWhileLiveFreeJobsBelowAllowance ==
    /\ [](can_generate_video(sub, now, videos).requires_payment
            <=> Cardinality(LiveFreeRows) >= FreeAllowance)
    /\ [][\A w \in DOMAIN vreq :
            /\ Admitted(w)
                 => /\ vreq'[w].mem.is_free_quota
                         <=> Cardinality(LiveFreeRows) < FreeAllowance
                    /\ vreq'[w].mem.is_paid = ~vreq'[w].mem.is_free_quota
            /\ (vreq[w].pc = "checked" /\ vreq'[w].pc = "enqueued")
                 => /\ Len(videos') = Len(videos) + 1
                    /\ videos'[Len(videos')].is_free_quota
                          = vreq[w].mem.is_free_quota]_vars

\* A pro user whose sixth job was admitted on free quota because an
\* earlier one had failed.
C10_Witness ==
    /\ get_user_plan(sub) = "pro"
    /\ Len(videos) = 6
    /\ FreeRows = 1 .. 6
    /\ Cardinality(LiveFreeRows) = 5
    /\ can_generate_video(sub, now, videos).requires_payment

\* C10 (as written): exactly the first N video requests of the billing
\* period are admitted on free quota; request N+1 and every later one
\* requires payment.
C10_FirstNRequestsAreFree ==
    [][\A w \in DOMAIN vreq :
          Admitted(w)
             => (vreq'[w].mem.is_free_quota
                    <=> Cardinality(FreeRows) < FreeAllowance)]_vars

\* C18: get_billing_period returns the subscription's stored period only
\* when the user holds an active subscription; with no subscription or one
\* that is not active it returns the calendar month containing now.
C18_StoredPeriodOnlyWhenActive ==
    get_billing_period(sub, now) =
        IF sub.exists /\ sub.status = "active"
        THEN <<sub.current_period_start, sub.current_period_end>>
        ELSE <<(now \div MonthLen) * MonthLen,
               (now \div MonthLen) * MonthLen + MonthLen>>

\* C20: every gateway operation returns an envelope holding a boolean
\* success and a status_code; a request timeout yields success=false with
\* status_code 504 and a connection failure success=false with 503.
C20_UniformEnvelope ==
    envelope.operation # "none"
        => /\ "success" \in DOMAIN envelope.result
           /\ envelope.result.success \in BOOLEAN
           /\ "status_code" \in DOMAIN envelope.result
           /\ envelope.outcome = "timeout"
                => ~envelope.result.success /\ envelope.result.status_code = 504
           /\ envelope.outcome = "connection_error"
                => ~envelope.result.success /\ envelope.result.status_code = 503

\* A payment session of Stripe that is paid and belongs to the user.
PaidByUser(psid) ==
    /\ psid # ""
    /\ StripeSession(psid).found
    /\ StripeSession(psid).payment_status = "paid"
    /\ StripeSession(psid).user_id = "user"

\* The row a request handler creates carries the flags of its admission.
CreatedAsAdmitted ==
    \A w \in DOMAIN vreq :
        (vreq[w].pc = "checked" /\ vreq'[w].pc = "enqueued")
            => /\ Len(videos') = Len(videos) + 1
               /\ videos'[Len(videos')].is_paid = vreq[w].mem.is_paid
               /\ videos'[Len(videos')].is_free_quota = vreq[w].mem.is_free_quota
               /\ videos'[Len(videos')].payment_session_id
                     = vreq[w].mem.payment_session_id

\* C11: every video job has exactly one of is_paid and is_free_quota set; a
\* request is admitted as paid only when the quota check requires payment
\* and the payment session it carries is verified as paid, as the user's
\* and as carried by no video job yet.
C11_PaidOnlyWithVerifiedProof ==
    /\ [](\A j \in DOMAIN videos : videos[j].is_paid # videos[j].is_free_quota)
    /\ [][\A w \in DOMAIN vreq :
            (Admitted(w) /\ vreq'[w].mem.is_paid)
               => /\ ~vreq'[w].mem.is_free_quota
                  /\ Cardinality(LiveFreeRows) >= FreeAllowance
                  /\ PaidByUser(vreq'[w].mem.payment_session_id)
                  /\ \A j \in DOMAIN videos :
                        videos[j].payment_session_id
                            # vreq'[w].mem.payment_session_id]_vars
    /\ [][CreatedAsAdmitted]_vars

\* The first video of a basic user, paid with a session of the user's.
C11_Witness ==
    /\ get_user_plan(sub) = "basic"
    /\ Len(videos) >= 1
    /\ videos[1].is_paid /\ ~videos[1].is_free_quota
    /\ videos[1].payment_session_id = "cs_paid"

\* Itineraries of the user that are completed.
OwnCompleted ==
    {i \in DOMAIN itins : itins[i].user = "user" /\ itins[i].status = "completed"}

\* C13: a request for quality 'high' (naming a completed itinerary of the
\* user) from a user whose plan is basic or premium is answered
\* upgrade_required whatever the free quota and the payment session, and no
\* request for quality 'high' of such a user is admitted.
C13_HighQualityNeedsPro ==
    /\ [](get_user_plan(sub) \in {"basic", "premium"}
            => \A it \in OwnCompleted, p \in AllSessionIds :
                  VideoOutcome(sub, now, itins, videos, it, "high", p)
                      = "upgrade_required")
    /\ [][\A w \in DOMAIN vreq :
            (Admitted(w) /\ vreq'[w].mem.quality = "high")
                => get_user_plan(sub) = "pro"]_vars

\* A premium user with free quota left and a paid session at hand.
C13_Witness ==
    /\ get_user_plan(sub) = "premium"
    /\ Len(videos) = 1
    /\ ~can_generate_video(sub, now, videos).requires_payment
    /\ VideoOutcome(sub, now, itins, videos, 1, "high", "cs_paid")
          = "upgrade_required"

OwnCompletedInPeriod ==
    {i \in OwnCompleted :
        /\ itins[i].created_at >= get_billing_period(sub, now)[1]
        /\ itins[i].created_at < get_billing_period(sub, now)[2]}

\* C17: only a request that passed every check creates a job record,
\* enqueues a task or touches the usage ledger: an itinerary request is
\* admitted only within the plan's limit, a video request only for a
\* completed itinerary of the user, a permitted quality, and free quota or a
\* paid, owned, unused payment session; rows, tasks and ledger change only
\* in the steps of an admitted request or of a task.
C17_RejectedRequestsChangeNothing ==
    /\ [][\A w \in DOMAIN ireq :
            (ireq[w].pc = "idle" /\ ireq'[w].pc = "checked")
               => \/ get_user_plan(sub) \in {"premium", "pro"}
                  \/ OwnCompletedInPeriod = {}]_vars
    /\ [][\A w \in DOMAIN vreq :
            Admitted(w)
               => LET m == vreq'[w].mem
                  IN  /\ m.itinerary \in OwnCompleted
                      /\ m.quality = "high" => get_user_plan(sub) = "pro"
                      /\ \/ Cardinality(LiveFreeRows) < FreeAllowance
                         \/ /\ PaidByUser(m.payment_session_id)
                            /\ \A j \in DOMAIN videos :
                                  videos[j].payment_session_id
                                      # m.payment_session_id]_vars
    /\ [][/\ Len(itins') # Len(itins) \/ Len(itask') # Len(itask)
              => \E w \in DOMAIN ireq :
                    ireq[w].pc = "checked" /\ ireq'[w].pc = "enqueued"
          /\ Len(videos') # Len(videos) \/ Len(vtask') # Len(vtask)
              => \E w \in DOMAIN vreq :
                    vreq[w].pc = "checked" /\ vreq'[w].pc = "enqueued"
          /\ usage' # usage
              => \/ \E w \in DOMAIN vreq :
                       vreq[w].pc = "enqueued" /\ vreq'[w].pc = "idle"
                 \/ itask' # itask \/ vtask' # vtask]_vars

\* A basic user whose paid session is used up and whose itinerary limit is
\* reached: further requests are rejected.
C17_Witness ==
    /\ get_user_plan(sub) = "basic"
    /\ Len(videos) = 1 /\ Len(vtask) = 1
    /\ \A w \in DOMAIN vreq : vreq[w].pc = "idle"
    /\ VideoOutcome(sub, now, itins, videos, 1, "standard", "cs_paid")
          = "payment_already_used"
    /\ VideoOutcome(sub, now, itins, videos, 1, "standard", "cs_unpaid")
          = "payment_incomplete"
    /\ ~can_create_itinerary(sub, now, itins)

\* C19: a video request is admitted, and its job created, only for an
\* itinerary that is the user's and completed when the request is checked;
\* a request naming another user's itinerary or one that is pending,
\* processing or failed is rejected.
C19_VideoNeedsCompletedItinerary ==
    /\ [][\A w \in DOMAIN vreq :
            Admitted(w) => vreq'[w].mem.itinerary \in OwnCompleted]_vars
    /\ [][\A w \in DOMAIN vreq :
            (vreq[w].pc = "checked" /\ vreq'[w].pc = "enqueued")
                => videos'[Len(videos')].itinerary = vreq[w].mem.itinerary]_vars
    /\ [](\A it \in DOMAIN itins \ OwnCompleted, q \in AllQualities,
             p \in AllSessionIds :
               VideoOutcome(sub, now, itins, videos, it, q, p)
                   \in {"not_found", "incomplete_itinerary"})

\* A video exists for the completed itinerary while another itinerary of
\* the user is not completed.
C19_Witness ==
    /\ Len(videos) >= 1
    /\ Len(itins) = 3
    /\ itins[3].user = "user"
    /\ itins[3].status \in {"pending", "processing", "failed"}
    /\ VideoOutcome(sub, now, itins, videos, 3, "standard", "cs_paid")
          = "incomplete_itinerary"

\* C12: a payment session is consumed by at most one paid video job, also
\* when two requests carrying it are handled at the same time.
C12_ProofConsumedOnce ==
    \A j, k \in DOMAIN videos :
        (videos[j].is_paid /\ videos[k].is_paid
            /\ videos[j].payment_session_id = videos[k].payment_session_id)
        => j = k

\* The purchase _update_video_purchase_status would write for video j.
BridgeFinds(j) ==
    \E p \in DOMAIN purchases :
        \/ purchases[p].video_generation = j
        \/ videos[j].payment # 0 /\ purchases[p].payment = videos[j].payment
        \/ /\ videos[j].is_paid
           /\ videos[j].payment_session_id # ""
           /\ purchases[p].video_generation = 0
           /\ purchases[p].created_at = videos[j].created_at

\* C14: when a paid video job has ended completed or failed and the bridge
\* can find its purchase, the purchase is linked to the job and carries the
\* job's status as generation_status and, when completed, its video_url;
\* this holds on every terminal path, a start call the gateway refused
\* included.
C14_PurchaseFollowsJob ==
    \A j \in DOMAIN videos :
        (/\ videos[j].status \in Terminal
         /\ Ended(vtask[j])
         /\ ~RequestOpen(vreq, j)
         /\ BridgeFinds(j))
        => \E p \in DOMAIN purchases :
              /\ purchases[p].video_generation = j
              /\ purchases[p].generation_status = videos[j].status
              /\ videos[j].status = "completed"
                    => purchases[p].video_url = videos[j].video_url

\* C15: a ledger or bridge call that fails changes neither the job's status
\* nor the task's outcome: the row stays as the task saved it, a task that
\* finished its job returns with SUCCESS and is not run again, and the view
\* that created the job answers as usual.
C15_LedgerAndBridgeFailuresAreSwallowed ==
    /\ [][\A j \in DOMAIN vtask :
            (paymentsDown /\ ledgerCalls'[j] > ledgerCalls[j]
                /\ vtask'[j] # vtask[j])
            => /\ videos'[j] = vtask'[j].mem
               /\ vtask'[j].result \in {"completed", "remote_failed", "timed_out"}
                     => /\ vtask'[j].state = "SUCCESS"
                        /\ videos'[j].status =
                              IF vtask'[j].result = "completed"
                              THEN "completed" ELSE "failed"]_vars
    /\ [][\A j \in DOMAIN itask :
            (paymentsDown /\ itask[j].state = "STARTED"
                /\ itask'[j].result = "success" /\ itask'[j] # itask[j])
            => /\ itask'[j].state = "SUCCESS"
               /\ itins'[j].status = "completed"]_vars
    /\ [][\A w \in DOMAIN vreq :
            (paymentsDown /\ vreq[w].pc = "enqueued" /\ vreq'[w].pc = "idle")
            => videos'[vreq[w].job].status = vreq[w].mem.status]_vars
    /\ [][\A j \in DOMAIN vtask :
            vtask[j].state = "SUCCESS" => vtask'[j] = vtask[j]]_vars

\* A video completed and an itinerary completed while the payments tables
\* were down: the tasks returned and nothing was counted for the video.
C15_Witness ==
    /\ paymentsDown
    /\ \E j \in DOMAIN videos :
          /\ videos[j].status = "completed"
          /\ vtask[j].state = "SUCCESS"
          /\ vtask[j].result = "completed"
          /\ ledgerCalls[j] = 2
          /\ bridgeCalls[j] = 2
    /\ usage.exists
    /\ usage.videos_generated = 0

\* C16: a gateway error (success false) ends the job failed with the
\* gateway's error text, on the start call and on every status poll.
C16_GatewayErrorFailsJob ==
    [][\A j \in DOMAIN vtask :
         (vtask'[j] # vtask[j]
             /\ vtask'[j].result \in {"failure", "gateway_error"})
         => /\ videos'[j].status = "failed"
            /\ videos'[j].error_message = "gateway error"]_vars

\* The purchases each path of the bridge looks at for job j.
DirectLink(ps, j) == {p \in DOMAIN ps : ps[p].video_generation = j}

SamePayment(ps, j) ==
    {p \in DOMAIN ps : videos[j].payment # 0 /\ ps[p].payment = videos[j].payment}

RecentUnlinked(ps, j) ==
    {p \in DOMAIN ps : /\ videos[j].is_paid
                       /\ videos[j].payment_session_id # ""
                       /\ ps[p].video_generation = 0
                       /\ ps[p].created_at = videos[j].created_at}

\* The first non-empty of the three sets.
Resolved(ps, j) ==
    IF DirectLink(ps, j) # {} THEN DirectLink(ps, j)
    ELSE IF SamePayment(ps, j) # {} THEN SamePayment(ps, j)
    ELSE RecentUnlinked(ps, j)

MostRecent(ps, S, p) == \A q \in S : ps[q].created_at <= ps[p].created_at

FreeQuotaJob(j) ==
    /\ videos[j].is_free_quota /\ ~videos[j].is_paid /\ videos[j].payment = 0

\* C22: a bridge call that finds no purchase by any path writes no purchase
\* and does not disturb the task; a free-quota job leaves every purchase as
\* it is, and unlinked, through all of its status changes.
C22_NoPurchaseNoChange ==
    /\ [][\A j \in DOMAIN bridgeCalls :
            (bridgeCalls'[j] > bridgeCalls[j] /\ ~BridgeFinds(j))
            => /\ purchases' = purchases
               /\ vtask'[j].result \in {"completed", "remote_failed", "timed_out"}
                     => vtask'[j].state = "SUCCESS"
               /\ vtask'[j].result = "success" => vtask'[j].state = "STARTED"]_vars
    /\ [][\A j \in DOMAIN videos :
            (FreeQuotaJob(j) /\ (videos'[j] # videos[j] \/ vtask'[j] # vtask[j]))
            => purchases' = purchases]_vars
    /\ [](\A j \in DOMAIN videos :
            FreeQuotaJob(j) =>
                \A p \in DOMAIN purchases : purchases[p].video_generation # j)

\* A free-quota job has completed, the bridge was called after the start
\* call and at completion, and the purchase the user made in the same tick
\* is still pending and unlinked.
C22_Witness ==
    /\ Len(purchases) = 1
    /\ purchases[1] = NewPurchase(1, 0)
    /\ \E j \in DOMAIN videos :
          /\ FreeQuotaJob(j)
          /\ videos[j].payment_session_id = "cs_paid"
          /\ videos[j].created_at = purchases[1].created_at
          /\ videos[j].status = "completed"
          /\ vtask[j].state = "SUCCESS"
          /\ bridgeCalls[j] = 2

\* Free-quota video jobs the quota check counts in the current period.
CountedFreeVideos ==
    Cardinality({j \in LiveFreeRows :
        /\ videos[j].created_at >= CurrentPeriod[1]
        /\ videos[j].created_at < CurrentPeriod[2]})

\* C23: a basic user has at most one completed itinerary created in the
\* current billing period, and no user has more free-quota video jobs
\* counted in the period than the free allowance of the plan, also when
\* requests arrive at the same time or one right after the other.
C23_AtMostNPerPeriod ==
    /\ get_user_plan(sub) = "basic" => CompletedThisPeriod <= 1
    /\ CountedFreeVideos <= FreeAllowance

\* C24: a status poll that succeeds and reports neither completed nor
\* failed leaves the job generating with the progress, current_day and
\* current_stage of the answer persisted; the poll that reports completed
\* with 100% ends the job completed with progress 100.
C24_PollsPersistProgress ==
    [][\A j \in DOMAIN vtask, a \in ProgressAnswers :
         (vtask[j].state = "STARTED" /\ vtask[j].phase = "poll"
             /\ VideoTaskPoll(j, a))
         => /\ vtask'[j].result = "polling"
                  => /\ a.status = "processing"
                     /\ videos'[j].status = "generating"
                     /\ videos'[j].progress = a.progress
                     /\ videos'[j].current_day = a.current_day
                     /\ videos'[j].current_stage = a.message
            /\ vtask'[j].result = "completed"
                  => /\ a.status = "completed"
                     /\ videos'[j].status = "completed"
                     /\ videos'[j].progress = 100]_vars

\* The job has completed on the third poll of its first execution.
C24_Witness ==
    \E j \in DOMAIN videos :
        /\ videos[j].status = "completed"
        /\ videos[j].progress = 100
        /\ videos[j].current_day = 3
        /\ vtask[j].state = "SUCCESS"
        /\ vtask[j].retries = 0
        /\ vtask[j].attempt = 3

\* C25: a job that is pending or processing has no remote job id, and a
\* job that is generating has one.
C25_RemoteIdOnlyAfterStart ==
    \A j \in DOMAIN videos :
        /\ videos[j].status \in {"pending", "processing"}
              => videos[j].fastapi_video_id = ""
        /\ videos[j].status = "generating" => videos[j].fastapi_video_id # ""

\* C26: videos_remaining is never negative; a call of record_video_usage
\* adds one to videos_generated, and takes one from videos_remaining exactly
\* when it is made with is_free and the counter is positive; a user without
\* usage record is left as it is.
C26_RemainingFlooredAtZero ==
    /\ [](usage.videos_remaining >= 0)
    /\ [][\A j \in DOMAIN videos, is_free \in BOOLEAN :
            RecordVideoUsage(j, is_free)
            => IF usage.exists
               THEN /\ usage'.videos_generated = usage.videos_generated + 1
                    /\ usage'.videos_remaining =
                          IF is_free /\ usage.videos_remaining > 0
                          THEN usage.videos_remaining - 1
                          ELSE usage.videos_remaining
                    /\ usage'.itineraries_generated = usage.itineraries_generated
               ELSE usage' = usage]_vars

\* More calls were made than free videos remained, and the counter has
\* stopped at zero.
C26_Witness ==
    /\ usage.exists
    /\ usage.videos_remaining = 0
    /\ usage.videos_generated = MaxGenerated + MaxLedgerCalls
    /\ ledgerCalls[1] = MaxLedgerCalls

\* C27: the billing period a quota check uses contains the current time,
\* so that a row created now is counted by the next check; also after the
\* subscription was deleted and after the stored period end has passed.
C27_PeriodContainsNow ==
    LET p == get_billing_period(sub, now)
    IN  /\ p[1] <= now /\ now < p[2]
        /\ InPeriod([EmptyItin EXCEPT !.created_at = now], p)

\* C28: a payment session sent with a request that is admitted on free
\* quota is not consumed: the free-quota job carries no payment session,
\* and a paid session of the user that no paid job carries is not taken for
\* already used.
C28_FreeQuotaKeepsProof ==
    /\ \A j \in DOMAIN videos :
          videos[j].is_free_quota => videos[j].payment_session_id = ""
    /\ \A psid \in AllSessionIds :
          (/\ StripeSession(psid).found
           /\ StripeSession(psid).payment_status = "paid"
           /\ StripeSession(psid).user_id = "user"
           /\ \A j \in DOMAIN videos :
                 videos[j].is_paid => videos[j].payment_session_id # psid)
          => ~already_used(videos, psid)

\* C29: the password-reset endpoint changes the password only when a reset
\* token of the user exists that is unused and not expired, which only a
\* successful verification of a reset OTP creates.
C29_ResetNeedsVerifiedToken ==
    [][auth'.password # auth.password
         => \E t \in DOMAIN auth.tokens : is_valid(auth.tokens[t], now)]_vars

\* C30: for a completed chat turn the status query returns the assistant
\* message the task made for that turn, also when several turns on the
\* itinerary are in flight at once.
C30_StatusReturnsOwnReply ==
    \A m \in UserMessages :
        (chats[m].status = "completed" /\ ctask[m].result = "success")
        => /\ chat_status_response(chats, m) # 0
           /\ chats[chat_status_response(chats, m)].message = m

=============================================================================
